---- MODULE Spec2Model ----
(***************************************************************************)
(* A model of treeindex::Node (src/src/treeindex/node.rs): search, insert  *)
(* and split_leaf on a LeafNode, insert, handle_result and split_node on   *)
(* an InternalNode.  Every atomic access of the code to shared memory (a   *)
(* load, a compare_and_set, a swap, one call of a Leaf method) is one      *)
(* step of the calling thread.  Leaf (super::leaf) is the foundational     *)
(* collaborator; its methods are modelled from their contract.             *)
(***************************************************************************)
EXTENDS Integers, Sequences, FiniteSets, TLC

\* Capacity of a Leaf (super::leaf::ARRAY_SIZE), scaled down.
ARRAY_SIZE == 2
\* Keys offered to insert are 0..MaxKey.
MaxKey == 4

Keys == 0..MaxKey
\* The two values of test::leaf_node: 10 on the first insert, 11 on the re-insert.
Values == {10, 11}
Threads == {"t1", "t2"}

\* Shared::null() / Atomic::null().
Null == 0
\* Option<K>::None.
NoKey == -1

VARIABLES
    leaves,             \* heap of Leaf<K, V>: id -> [entries, st]
    floor,              \* heap of Node: id -> Node::floor
    bounded_children,   \* node id -> [bucket key -> child pointer]
    unbounded_child,    \* node id -> child pointer or Null
    reserved_low_key,   \* node id -> staged pointer or Null
    reserved_high_key,  \* node id -> staged pointer or Null
    pc,                 \* thread -> position in insert / split_leaf
    key,                \* thread -> key argument of insert
    value,              \* thread -> value argument of insert
    caller,             \* thread -> the InternalNode whose insert recursed, or Null
    node,               \* thread -> self of the running Node::insert
    max_key,            \* thread -> bucket key found by min_ge (full_leaf_max_key)
    child_node,         \* thread -> loaded child pointer (child_node / current_tail_node)
    low_key_leaf,       \* thread -> low_key_leaf of split_leaf
    high_key_leaf,      \* thread -> high_key_leaf of split_leaf
    distributed,        \* thread -> the pair returned by Leaf::distribute
    result,             \* thread -> the Result of the last insert
    keyset,             \* thread -> the keys the thread inserts
    inserted,           \* history: the (key, value) pairs whose insert returned Ok
    splitReported,      \* history: nodes on which a split_leaf returned Full or
                        \* published a two-leaf split
    guard,              \* thread -> TRUE while its epoch guard is pinned
    protectors,         \* pairs <<leaf, thread>>: the guard of the thread was pinned
                        \* when the leaf was handed to defer_destroy, and still is
    scanner,            \* thread -> the LeafNodeScanner it holds
    found,              \* thread -> the entry its scanner yielded last, if any
    dropped,            \* TRUE once the root node has been dropped
    released,           \* leaf -> the number of times Drop released it
    changed             \* history: thread -> a step of its running (or last) insert
                        \* changed what search or a full scan of the node yields

nodeVars == <<floor, bounded_children, unbounded_child, reserved_low_key, reserved_high_key>>
localVars == <<max_key, child_node, low_key_leaf, high_key_leaf, distributed>>
reclaimVars == <<guard, protectors, scanner, found, dropped, released>>
vars == <<leaves, nodeVars, pc, key, value, caller, node, localVars, result, keyset,
          inserted, splitReported, reclaimVars, changed>>

----------------------------------------------------------------------------
(* Leaf<K, V>: a fixed-capacity sorted array of unique keys.               *)

KeysOf(entries) == {e[1] : e \in entries}

Min(S) == CHOOSE x \in S : \A y \in S : x <= y
Max(S) == CHOOSE x \in S : \A y \in S : y <= x

\* Leaf::min_ge: the smallest stored key >= k, or None.
Leaf_min_ge(ks, k) ==
    IF \E x \in ks : x >= k THEN Min({x \in ks : x >= k}) ELSE NoKey

\* Leaf::full.
Leaf_full(ks) == Cardinality(ks) >= ARRAY_SIZE

\* Leaf::max_key.
Leaf_max_key(ks) == IF ks = {} THEN NoKey ELSE Max(ks)

\* Leaf::insert(key, value, false): None ("ok"), Some((entry, true)) when the key is
\* stored already ("dup"), Some((entry, false)) when the leaf has no room ("full").
Leaf_insert(ks, k) ==
    IF k \in ks THEN "dup" ELSE IF Leaf_full(ks) THEN "full" ELSE "ok"

\* Leaf::distribute: the ARRAY_SIZE / 2 smallest entries go to the low leaf, the
\* others to the high leaf.
DistributeLow(entries) ==
    {e \in entries : Cardinality({d \in entries : d[1] < e[1]}) < ARRAY_SIZE \div 2}
DistributeHigh(entries) == entries \ DistributeLow(entries)

\* LeafScanner::from(key, leaf).get(): the entry of exactly that key, if any.
LeafScanner_from(entries, k) == {e \in entries : e[1] = k}

----------------------------------------------------------------------------
(* The heap of leaves.  A dropped leaf returns to the allocator; a leaf    *)
(* handed to defer_destroy stays retired.                                  *)

LeafIds == 1..Len(leaves)
Entries(id) == leaves[id].entries

NewLeafId ==
    IF \E i \in LeafIds : leaves[i].st = "free"
    THEN Min({i \in LeafIds : leaves[i].st = "free"})
    ELSE Len(leaves) + 1

LiveLeaf(entries) == [entries |-> entries, st |-> "live"]

Put(heap, id, leaf) ==
    IF id <= Len(heap) THEN [heap EXCEPT ![id] = leaf] ELSE Append(heap, leaf)

Dropped(heap, id) == [heap EXCEPT ![id] = [entries |-> {}, st |-> "free"]]
\* Mutant: the leaf is freed at once instead of being handed to defer_destroy.
RetiredAsDropped(heap, id) == Dropped(heap, id)
\* Mutant: the leaf is deallocated, entries and all, when it is unlinked.
RetiredAsFreed(heap, id) == [heap EXCEPT ![id].st = "free"]
Retired(heap, id) == [heap EXCEPT ![id].st = "retired"]

\* guard.defer_destroy(leaf) in a step: the guards pinned at that moment protect
\* the leaf; nothing else of the reclamation state changes.
DeferDestroy ==
    /\ protectors' = protectors \cup
           {<<id, t>> : id \in {i \in LeafIds : leaves[i].st # "retired"
                                                /\ leaves'[i].st = "retired"},
                        t \in {u \in Threads : guard[u]}}
    /\ UNCHANGED <<guard, scanner, found, dropped, released>>

----------------------------------------------------------------------------
(* Results of insert.                                                      *)

Ok == [kind |-> "Ok", key |-> NoKey, value |-> NoKey, bound |-> NoKey]
Duplicated(k, v) == [kind |-> "Duplicated", key |-> k, value |-> v, bound |-> NoKey]
Full(k, v, b) == [kind |-> "Full", key |-> k, value |-> v, bound |-> b]
Retry(k, v) == [kind |-> "Retry", key |-> k, value |-> v, bound |-> NoKey]
NoResult == [kind |-> "None", key |-> NoKey, value |-> NoKey, bound |-> NoKey]

NoLocals(t) ==
    /\ max_key' = [max_key EXCEPT ![t] = NoKey]
    /\ child_node' = [child_node EXCEPT ![t] = Null]
    /\ low_key_leaf' = [low_key_leaf EXCEPT ![t] = Null]
    /\ high_key_leaf' = [high_key_leaf EXCEPT ![t] = Null]
    /\ distributed' = [distributed EXCEPT ![t] = <<0, 0>>]

\* The outermost insert returns r to the caller of the container.
Finish(t, r) ==
    /\ pc' = [pc EXCEPT ![t] = "returned"]
    /\ result' = [result EXCEPT ![t] = r]
    /\ inserted' = IF r.kind = "Ok" THEN inserted \cup {<<key[t], value[t]>>} ELSE inserted
    /\ node' = [node EXCEPT ![t] = Null]
    /\ caller' = [caller EXCEPT ![t] = Null]

\* Node::insert on a LeafNode returns r: to the container, or to the InternalNode
\* that recursed into it (whose next step is handle_result).
Return(t, r) ==
    /\ NoLocals(t)
    /\ IF caller[t] = Null
       THEN Finish(t, r)
       ELSE /\ pc' = [pc EXCEPT ![t] = "handle_result"]
            /\ result' = [result EXCEPT ![t] = r]
            /\ UNCHANGED <<inserted, node, caller>>

----------------------------------------------------------------------------
(* Node::search, LeafNode branch.                                          *)

\* The leaf search routes k to: the child of min_ge's bucket, else the unbounded child.
SearchLeaf(n, k) ==
    LET b == Leaf_min_ge(DOMAIN bounded_children[n], k)
    IN  IF b # NoKey THEN bounded_children[n][b] ELSE unbounded_child[n]

\* The entry get() yields on the scanner search returns: {<<k, v>>}, or {} for None.
Search(n, k) ==
    LET leaf == SearchLeaf(n, k)
    IN  IF leaf = Null THEN {} ELSE LeafScanner_from(Entries(leaf), k)

----------------------------------------------------------------------------
(* LeafNodeScanner::new, then next() until None: the leaves of the buckets *)
(* in bucket order, each drained in key order, then the unbounded child.   *)

RECURSIVE LeafScan(_)
LeafScan(entries) ==
    IF entries = {} THEN <<>>
    ELSE LET e == CHOOSE x \in entries : \A y \in entries : x[1] <= y[1]
         IN  <<e>> \o LeafScan(entries \ {e})

RECURSIVE BucketScan(_, _)
BucketScan(n, ks) ==
    IF ks = {} THEN <<>>
    ELSE LeafScan(Entries(bounded_children[n][Min(ks)])) \o BucketScan(n, ks \ {Min(ks)})

FullScan(n) ==
    BucketScan(n, DOMAIN bounded_children[n])
        \o (IF unbounded_child[n] = Null THEN <<>> ELSE LeafScan(Entries(unbounded_child[n])))

\* The leaves a LeafNode points to: the children of its buckets and the unbounded
\* child.
LinkedLeaves(n) ==
    {bounded_children[n][b] : b \in DOMAIN bounded_children[n]}
        \cup ({unbounded_child[n]} \ {Null})

\* The entries search finds, and the sequence a full scan yields.
Visible(n) ==
    <<{e \in UNION {Entries(id) : id \in LinkedLeaves(n)} : Search(n, e[1]) = {e}},
      FullScan(n)>>

\* History: the step of thread t changed what search or a full scan of the LeafNode
\* its insert runs on yields.
Track(t) ==
    changed' = [changed EXCEPT ![t] =
        @ \/ (IF <<leaves, bounded_children, unbounded_child>>'
                   = <<leaves, bounded_children, unbounded_child>>
              THEN FALSE
              ELSE \E n \in {node[t]} : Visible(n)' # Visible(n))]

----------------------------------------------------------------------------
(* LeafNodeScanner, call by call.  A LeafScanner is a position in a Leaf:  *)
(* next() yields the smallest key above the key it yielded last.           *)

NoScanner == [on |-> FALSE, leaf |-> Null, pos |-> NoKey]

\* LeafScanner::new(leaf)
LeafScanner_new(leaf) == [on |-> TRUE, leaf |-> leaf, pos |-> NoKey]

\* LeafScanner::next: the key of the next entry of a scanner at pos, or None.
LeafScanner_next(ks, pos) == Leaf_min_ge(ks, pos + 1)

\* LeafNodeScanner::new(leaf_node, guard): both scanners None.
LeafNodeScanner_new == [node_scanner |-> NoScanner, leaf_scanner |-> NoScanner]

\* LeafNodeScanner::from(key, leaf_node, leaf, guard): no node_scanner, and a
\* LeafScanner::from(key, leaf), which stands at the entry of the key.
LeafNodeScanner_from(k, leaf) ==
    [node_scanner |-> NoScanner, leaf_scanner |-> [on |-> TRUE, leaf |-> leaf, pos |-> k]]

\* Some(entry): the entry of key k in the leaf, and the scanner left behind.
Yield(leaf, k, node_scanner) ==
    [item |-> <<CHOOSE e \in Entries(leaf) : e[1] = k>>,
     scanner |-> [node_scanner |-> node_scanner,
                  leaf_scanner |-> [on |-> TRUE, leaf |-> leaf, pos |-> k]]]

\* None, and the scanner left behind.
EndOfScan(node_scanner, leaf_scanner) ==
    [item |-> <<>>,
     scanner |-> [node_scanner |-> node_scanner, leaf_scanner |-> leaf_scanner]]

\* while let Some(leaf) = node_scanner.next(): the first bucket after pos whose leaf
\* yields an entry, or None when the buckets are exhausted.
RECURSIVE NextBucket(_, _)
NextBucket(n, pos) ==
    LET b == LeafScanner_next(DOMAIN bounded_children[n], pos)
    IN  IF b = NoKey THEN NoKey
        ELSE IF LeafScanner_next(KeysOf(Entries(bounded_children[n][b])), NoKey) # NoKey
        THEN b
        ELSE NextBucket(n, b)

\* Mutant: the end of the leaf in hand ends the scan.
EndOfIterationAlways(node_scanner) == TRUE

\* if self.node_scanner.is_none() { return None }
EndOfIteration(node_scanner) == ~node_scanner.on

\* The unbounded child, visited once the buckets are exhausted.
ScanUnbounded(n, leaf_scanner) ==
    LET tail == unbounded_child[n]
        k == LeafScanner_next(KeysOf(Entries(tail)), NoKey)
    IN  IF tail = Null THEN EndOfScan(NoScanner, leaf_scanner)
        ELSE IF k # NoKey THEN Yield(tail, k, NoScanner)
        ELSE EndOfScan(NoScanner, LeafScanner_new(tail))

\* The buckets after the position of node_scanner, then the unbounded child.
ScanBuckets(n, s) ==
    LET pos == s.node_scanner.pos
        b == NextBucket(n, pos)
        leaf == bounded_children[n][b]
        visited == LeafScanner_next(DOMAIN bounded_children[n], pos) # NoKey
    IN  IF b # NoKey
        THEN Yield(leaf, LeafScanner_next(KeysOf(Entries(leaf)), NoKey),
                   [on |-> TRUE, leaf |-> Null, pos |-> b])
        ELSE ScanUnbounded(n, IF visited THEN NoScanner ELSE s.leaf_scanner)

\* LeafNodeScanner::next on LeafNode n: [item: <<entry>> or <<>>, scanner].
LeafNodeScanner_next(n, s) ==
    LET ls == s.leaf_scanner
        k == IF ls.on THEN LeafScanner_next(KeysOf(Entries(ls.leaf)), ls.pos) ELSE NoKey
    IN  IF k # NoKey THEN Yield(ls.leaf, k, s.node_scanner)
        ELSE IF ls.on /\ EndOfIteration(s.node_scanner) THEN EndOfScan(s.node_scanner, ls)
        ELSE ScanBuckets(n, s)

\* scanner.next() until None: the entries yielded, in the order they are yielded.
RECURSIVE Drain(_, _)
Drain(n, s) ==
    LET r == LeafNodeScanner_next(n, s)
    IN  IF r.item = <<>> THEN <<>> ELSE r.item \o Drain(n, r.scanner)

Scan(n) == Drain(n, LeafNodeScanner_new)

\* The entries of a sequence of entries.
Yielded(seq) == {seq[i] : i \in 1..Len(seq)}

----------------------------------------------------------------------------
(* Node::insert, LeafNode branch.                                          *)

\* The container calls insert(k, v) on the root LeafNode.
Call(t) ==
    /\ pc[t] \in {"idle", "returned"}
    /\ floor[1] = 0
    /\ \E k \in keyset[t], v \in Values :
         /\ key' = [key EXCEPT ![t] = k]
         /\ value' = [value EXCEPT ![t] = v]
    /\ node' = [node EXCEPT ![t] = 1]
    /\ pc' = [pc EXCEPT ![t] = "lookup"]
    /\ result' = [result EXCEPT ![t] = NoResult]
    /\ UNCHANGED <<leaves, nodeVars, caller, localVars, keyset, inserted, splitReported>>
    /\ guard[t]
    /\ ~dropped
    /\ UNCHANGED reclaimVars
    /\ changed' = [changed EXCEPT ![t] = FALSE]

\* bounded_children.min_ge(&key)
Lookup(t) ==
    /\ pc[t] = "lookup"
    /\ LET b == Leaf_min_ge(DOMAIN bounded_children[node[t]], key[t])
       IN  /\ max_key' = [max_key EXCEPT ![t] = b]
           /\ pc' = [pc EXCEPT ![t] = IF b # NoKey THEN "load" ELSE "grow"]
    /\ UNCHANGED <<leaves, nodeVars, key, value, caller, node, child_node, low_key_leaf,
                   high_key_leaf, distributed, result, keyset, inserted, splitReported>>
    /\ UNCHANGED reclaimVars
    /\ Track(t)

\* Mutant: the bucket is stored whatever the array holds.
AddBucketAlways(buckets, k, id) == (k :> id) @@ buckets

\* Mutant: the bucket array refuses every registration.
AddBucketNever(buckets, k, id) == buckets

\* The registration of a bucket: Leaf::insert on the bucket array.
AddBucket(buckets, k, id) ==
    IF Leaf_insert(DOMAIN buckets, k) = "ok" THEN buckets @@ (k :> id) ELSE buckets

\* else if !bounded_children.full() { .. } else { break }: the test of the loop
Grow(t) ==
    /\ pc[t] = "grow"
    /\ pc' = [pc EXCEPT ![t] = IF Leaf_full(DOMAIN bounded_children[node[t]])
                               THEN "tail_load" ELSE "grow_insert"]
    /\ UNCHANGED <<leaves, nodeVars, key, value, caller, node, localVars, result, keyset,
                   inserted, splitReported>>
    /\ UNCHANGED reclaimVars
    /\ Track(t)

\* bounded_children.insert(key.clone(), Atomic::new(Leaf::new()), false); a leaf the
\* array refuses (the key has a bucket by now, or no slot is left) is dropped at
\* once; then the loop looks the key up again
GrowInsert(t) ==
    /\ pc[t] = "grow_insert"
    /\ LET n == node[t]
           id == NewLeafId
           grown == AddBucket(bounded_children[n], key[t], id)
       IN  /\ bounded_children' = [bounded_children EXCEPT ![n] = grown]
           /\ leaves' = IF grown = bounded_children[n]
                        THEN Dropped(Put(leaves, id, LiveLeaf({})), id)
                        ELSE Put(leaves, id, LiveLeaf({}))
    /\ pc' = [pc EXCEPT ![t] = "lookup"]
    /\ UNCHANGED <<floor, unbounded_child, reserved_low_key, reserved_high_key, key, value,
                   caller, node, localVars, result, keyset, inserted, splitReported>>
    /\ UNCHANGED reclaimVars
    /\ Track(t)

\* child.load(Acquire, guard)
Load(t) ==
    /\ pc[t] = "load"
    /\ child_node' = [child_node EXCEPT ![t] = bounded_children[node[t]][max_key[t]]]
    /\ pc' = [pc EXCEPT ![t] = "leaf_insert"]
    /\ UNCHANGED <<leaves, nodeVars, key, value, caller, node, max_key, low_key_leaf,
                   high_key_leaf, distributed, result, keyset, inserted, splitReported>>
    /\ UNCHANGED reclaimVars
    /\ Track(t)

\* Mutant: a refused duplicate is reported as success.
InsertResultDupAsOk(outcome, k, v) == Ok

\* The Result a Leaf::insert outcome maps to, when it is not a split.
InsertResult(outcome, k, v) == IF outcome = "dup" THEN Duplicated(k, v) ELSE Ok

\* child_node.deref().insert(key, value, false), in a bucket or in the unbounded child
LeafInsert(t) ==
    /\ pc[t] \in {"leaf_insert", "tail_insert"}
    /\ LET outcome == Leaf_insert(KeysOf(Entries(child_node[t])), key[t])
       IN  IF outcome = "full"
           THEN /\ pc' = [pc EXCEPT ![t] = "claim_low"]
                /\ UNCHANGED <<leaves, result, inserted, node, caller, localVars>>
           ELSE /\ leaves' = IF outcome = "ok"
                             THEN [leaves EXCEPT ![child_node[t]].entries =
                                       @ \cup {<<key[t], value[t]>>}]
                             ELSE leaves
                /\ Return(t, InsertResult(outcome, key[t], value[t]))
    /\ UNCHANGED <<nodeVars, key, value, keyset, splitReported>>
    /\ UNCHANGED reclaimVars
    /\ Track(t)

\* unbounded_child.load(Relaxed, guard)
TailLoad(t) ==
    /\ pc[t] = "tail_load"
    /\ child_node' = [child_node EXCEPT ![t] = unbounded_child[node[t]]]
    /\ pc' = [pc EXCEPT ![t] = IF unbounded_child[node[t]] = Null
                               THEN "tail_cas" ELSE "tail_insert"]
    /\ UNCHANGED <<leaves, nodeVars, key, value, caller, node, max_key, low_key_leaf,
                   high_key_leaf, distributed, result, keyset, inserted, splitReported>>
    /\ UNCHANGED reclaimVars
    /\ Track(t)

\* Mutant: the new leaf is stored whatever the pointer holds.
TailCasAlways(current) == TRUE

\* compare_and_set(current_tail_node, ..), current_tail_node being null, succeeds
\* iff the pointer is still null.
TailCasSucceeds(current) == current = Null

\* unbounded_child.compare_and_set(null, Owned::new(Leaf::new()))
TailCas(t) ==
    /\ pc[t] = "tail_cas"
    /\ LET n == node[t]
           id == NewLeafId
       IN  IF TailCasSucceeds(unbounded_child[n])
           THEN /\ unbounded_child' = [unbounded_child EXCEPT ![n] = id]
                /\ leaves' = Put(leaves, id, LiveLeaf({}))
                /\ child_node' = [child_node EXCEPT ![t] = id]
           ELSE /\ child_node' = [child_node EXCEPT ![t] = unbounded_child[n]]
                /\ UNCHANGED <<leaves, unbounded_child>>
    /\ pc' = [pc EXCEPT ![t] = "tail_insert"]
    /\ UNCHANGED <<floor, bounded_children, reserved_low_key, reserved_high_key, key, value,
                   caller, node, max_key, low_key_leaf, high_key_leaf, distributed, result,
                   keyset, inserted, splitReported>>
    /\ UNCHANGED reclaimVars
    /\ Track(t)

----------------------------------------------------------------------------
(* Node::split_leaf.                                                       *)

\* Mutant: the low slot is stored to, whatever it holds.
ClaimLowAlways(n) == TRUE

\* Mutant: the high slot is stored to, whatever it holds.
ClaimHighAlways(n) == TRUE

\* compare_and_set(Shared::null(), ..) on a staging slot succeeds iff the slot is null.
ClaimLowSucceeds(n) == reserved_low_key[n] = Null
ClaimHighSucceeds(n) == reserved_high_key[n] = Null

\* low_key.compare_and_set(null, new_leaf_low_key)
ClaimLow(t) ==
    /\ pc[t] = "claim_low"
    /\ LET n == node[t]
           id == NewLeafId
       IN  IF ClaimLowSucceeds(n)
           THEN /\ reserved_low_key' = [reserved_low_key EXCEPT ![n] = id]
                /\ leaves' = Put(leaves, id, LiveLeaf({}))
                /\ low_key_leaf' = [low_key_leaf EXCEPT ![t] = id]
                /\ pc' = [pc EXCEPT ![t] = "claim_high"]
                /\ UNCHANGED <<max_key, child_node, high_key_leaf, distributed, result,
                               inserted, node, caller>>
           ELSE /\ Return(t, Retry(key[t], value[t]))
                /\ UNCHANGED <<leaves, reserved_low_key>>
    /\ UNCHANGED <<floor, bounded_children, unbounded_child, reserved_high_key, key, value,
                   keyset, splitReported>>
    /\ UNCHANGED reclaimVars
    /\ Track(t)

\* high_key.compare_and_set(null, new_leaf_high_key); on failure the low slot is
\* swapped back to null and the leaf it held is dropped
ClaimHigh(t) ==
    /\ pc[t] = "claim_high"
    /\ LET n == node[t]
           id == NewLeafId
       IN  IF ClaimHighSucceeds(n)
           THEN /\ reserved_high_key' = [reserved_high_key EXCEPT ![n] = id]
                /\ leaves' = Put(leaves, id, LiveLeaf({}))
                /\ high_key_leaf' = [high_key_leaf EXCEPT ![t] = id]
                /\ pc' = [pc EXCEPT ![t] = "distribute"]
                /\ UNCHANGED <<reserved_low_key, max_key, child_node, low_key_leaf,
                               distributed, result, inserted, node, caller>>
           ELSE /\ leaves' = Dropped(leaves, reserved_low_key[n])
                /\ reserved_low_key' = [reserved_low_key EXCEPT ![n] = Null]
                /\ Return(t, Retry(key[t], value[t]))
                /\ UNCHANGED reserved_high_key
    /\ UNCHANGED <<floor, bounded_children, unbounded_child, key, value, keyset,
                   splitReported>>
    /\ UNCHANGED reclaimVars
    /\ Track(t)

\* full_leaf.load(Acquire, &guard): the bucket's pointer, or the unbounded child
FullLeaf(t) ==
    IF max_key[t] = NoKey
    THEN unbounded_child[node[t]]
    ELSE bounded_children[node[t]][max_key[t]]

\* Mutant: the key is not compared with the low leaf's keys.
PlaceInLowOnlyIfHighEmpty(low, high, k) == Cardinality(high) = 0
\* Mutant: the entry always goes to the high leaf.
PlaceInLowNever(low, high, k) == FALSE
\* Mutant: the entry always goes to the low leaf.
PlaceInLowAlways(low, high, k) == TRUE

\* The new leaf the overflow entry goes to: the low one if the high one is empty or
\* low_key_leaf.min_ge(&entry.0) finds a key, else the high one.
PlaceInLow(low, high, k) ==
    Cardinality(high) = 0 \/ Leaf_min_ge(KeysOf(low), k) # NoKey

\* A Leaf::insert whose result is discarded.
Inserted(entries, k, v) ==
    IF Leaf_insert(KeysOf(entries), k) = "ok" THEN entries \cup {<<k, v>>} ELSE entries

\* full_leaf.distribute(low_key_leaf, high_key_leaf), then the insert of the entry
Distribute(t) ==
    /\ pc[t] = "distribute"
    /\ LET full == Entries(FullLeaf(t))
           low == DistributeLow(full)
           high == DistributeHigh(full)
           inLow == PlaceInLow(low, high, key[t])
       IN  /\ distributed' = [distributed EXCEPT ![t] =
                                  <<Cardinality(low), Cardinality(high)>>]
           /\ leaves' = [leaves EXCEPT
                  ![low_key_leaf[t]].entries =
                      IF inLow THEN Inserted(low, key[t], value[t]) ELSE low,
                  ![high_key_leaf[t]].entries =
                      IF inLow THEN high ELSE Inserted(high, key[t], value[t])]
    /\ pc' = [pc EXCEPT ![t] = "publish"]
    /\ UNCHANGED <<nodeVars, key, value, caller, node, max_key, child_node, low_key_leaf,
                   high_key_leaf, result, keyset, inserted, splitReported>>
    /\ UNCHANGED reclaimVars
    /\ Track(t)

\* The staging slots after the one-leaf (degenerate) publication: both swapped to null.
UnlockBoth(slots, n) == [slots EXCEPT ![n] = Null]

\* Mutant: the refusal of the registration is not looked at.
PublishCaseUnchecked(full_leaf_max_key, high_count, registered) ==
    IF full_leaf_max_key = NoKey THEN "full_unbounded"
    ELSE IF high_count = 0 THEN "degenerate"
    ELSE "registered"

\* The way split_leaf ends: Full for the unbounded child; the low leaf alone
\* replaces the full one when the high leaf got nothing; else the low leaf is
\* registered as a bucket, and Full is returned when that insert is refused.
PublishCase(full_leaf_max_key, high_count, registered) ==
    IF full_leaf_max_key = NoKey THEN "full_unbounded"
    ELSE IF high_count = 0 THEN "degenerate"
    ELSE IF ~registered THEN "full_bounded"
    ELSE "registered"

\* Mutant: the overflow of the unbounded child is reported as a lost claim.
UnboundedOverflowAsRetry(k, v) == Retry(k, v)

\* if full_leaf_max_key.is_none() { return Err(Error::Full(entry, None)) }
UnboundedOverflow(k, v) == Full(k, v, NoKey)

Publish(t) ==
    /\ pc[t] = "publish"
    /\ LET n == node[t]
           lowmax == Leaf_max_key(KeysOf(Entries(low_key_leaf[t])))
           grown == AddBucket(bounded_children[n], lowmax, low_key_leaf[t])
           case == PublishCase(max_key[t], distributed[t][2], grown # bounded_children[n])
       IN  IF case = "full_unbounded"
           THEN /\ Return(t, UnboundedOverflow(key[t], value[t]))
                /\ splitReported' = splitReported \cup {n}
                /\ UNCHANGED <<leaves, bounded_children, reserved_low_key,
                               reserved_high_key>>
           ELSE IF case = "degenerate"
           THEN /\ bounded_children' = [bounded_children EXCEPT
                       ![n][max_key[t]] = low_key_leaf[t]]
                /\ leaves' = Dropped(Retired(leaves, FullLeaf(t)), reserved_high_key[n])
                /\ reserved_high_key' = UnlockBoth(reserved_high_key, n)
                /\ reserved_low_key' = UnlockBoth(reserved_low_key, n)
                /\ Return(t, Ok)
                /\ UNCHANGED splitReported
           ELSE IF case = "full_bounded"
           THEN /\ Return(t, Full(key[t], value[t], max_key[t]))
                /\ splitReported' = splitReported \cup {n}
                /\ UNCHANGED <<leaves, bounded_children, reserved_low_key,
                               reserved_high_key>>
           ELSE /\ bounded_children' = [bounded_children EXCEPT ![n] = grown]
                /\ pc' = [pc EXCEPT ![t] = "swap_full"]
                /\ UNCHANGED <<leaves, reserved_low_key, reserved_high_key, localVars,
                               result, inserted, node, caller, splitReported>>
    /\ UNCHANGED <<floor, unbounded_child, key, value, keyset>>
    /\ DeferDestroy
    /\ Track(t)

\* full_leaf.swap(high_key_leaf, Release, &guard); guard.defer_destroy(old_full_leaf)
SwapFull(t) ==
    /\ pc[t] = "swap_full"
    /\ bounded_children' = [bounded_children EXCEPT
           ![node[t]][max_key[t]] = high_key_leaf[t]]
    /\ leaves' = Retired(leaves, FullLeaf(t))
    /\ pc' = [pc EXCEPT ![t] = "unlock"]
    /\ UNCHANGED <<floor, unbounded_child, reserved_low_key, reserved_high_key, key, value,
                   caller, node, localVars, result, keyset, inserted, splitReported>>
    /\ DeferDestroy
    /\ Track(t)

\* The staging slots after the two-leaf publication: low_key.swap(null); the high
\* slot is left as it is.
UnlockLow(slots, n) == [slots EXCEPT ![n] = Null]
\* Mutant: the high slot is swapped to null as well.
UnlockHighToo(slots, n) == [slots EXCEPT ![n] = Null]
UnlockHigh(slots, n) == slots

\* low_key.swap(Shared::null(), Release, guard); return Ok(())
Unlock(t) ==
    /\ pc[t] = "unlock"
    /\ reserved_low_key' = UnlockLow(reserved_low_key, node[t])
    /\ reserved_high_key' = UnlockHigh(reserved_high_key, node[t])
    /\ splitReported' = splitReported \cup {node[t]}
    /\ Return(t, Ok)
    /\ UNCHANGED <<leaves, floor, bounded_children, unbounded_child, key, value, keyset>>
    /\ UNCHANGED reclaimVars
    /\ Track(t)

LeafStep(t) ==
    \/ Lookup(t) \/ Grow(t) \/ GrowInsert(t) \/ Load(t) \/ LeafInsert(t) \/ TailLoad(t) \/ TailCas(t)
    \/ ClaimLow(t) \/ ClaimHigh(t) \/ Distribute(t) \/ Publish(t) \/ SwapFull(t)
    \/ Unlock(t)

----------------------------------------------------------------------------
(* Node::search and Node::insert, InternalNode branch, and handle_result,  *)
(* on a node of floor 1, whose children are LeafNodes.                     *)

\* Keys offered to an InternalNode: enough to fill its buckets, the buckets of its
\* unbounded child and that child's unbounded leaf, and to overflow it.
InternalKeys == 0..(3 * ARRAY_SIZE)

\* The child search and insert recurse into: min_ge's bucket, else the unbounded child.
ChildOf(n, k) ==
    LET b == Leaf_min_ge(DOMAIN bounded_children[n], k)
    IN  IF b # NoKey THEN bounded_children[n][b] ELSE unbounded_child[n]

\* Node::search on an InternalNode: None when the unbounded child is needed and null.
InternalSearch(n, k) ==
    IF ChildOf(n, k) = Null THEN {} ELSE Search(ChildOf(n, k), k)

\* The value test::leaf_node offers: 10 with a key for the first time, 11 when it
\* inserts the key again.
TestValue(k) == IF k \in KeysOf(inserted) THEN 11 ELSE 10

\* The container calls insert(k, v) on the root InternalNode.
InternalCall(t) ==
    /\ pc[t] \in {"idle", "returned"}
    /\ floor[1] > 0
    /\ \E k \in keyset[t] :
         /\ key' = [key EXCEPT ![t] = k]
         /\ value' = [value EXCEPT ![t] = TestValue(k)]
    /\ node' = [node EXCEPT ![t] = 1]
    /\ pc' = [pc EXCEPT ![t] = "internal_lookup"]
    /\ result' = [result EXCEPT ![t] = NoResult]
    /\ UNCHANGED <<leaves, nodeVars, caller, localVars, keyset, inserted, splitReported>>
    /\ guard[t]
    /\ ~dropped
    /\ UNCHANGED reclaimVars
    /\ changed' = [changed EXCEPT ![t] = FALSE]

\* bounded_children.min_ge(&key); child.load(Acquire, guard); child_node.insert(..)
InternalLookup(t) ==
    /\ pc[t] = "internal_lookup"
    /\ LET n == node[t]
           b == Leaf_min_ge(DOMAIN bounded_children[n], key[t])
       IN  IF b # NoKey
           THEN /\ caller' = [caller EXCEPT ![t] = n]
                /\ node' = [node EXCEPT ![t] = bounded_children[n][b]]
                /\ pc' = [pc EXCEPT ![t] = "lookup"]
           ELSE /\ pc' = [pc EXCEPT ![t] = "internal_grow"]
                /\ UNCHANGED <<caller, node>>
    /\ UNCHANGED <<leaves, nodeVars, key, value, localVars, result, keyset, inserted,
                   splitReported>>
    /\ UNCHANGED reclaimVars
    /\ UNCHANGED changed

\* else if !bounded_children.full() { bounded_children.insert(key.clone(),
\* Atomic::new(Node::new(self.floor - 1))) } else break
InternalGrow(t) ==
    /\ pc[t] = "internal_grow"
    /\ LET n == node[t]
           id == Len(floor) + 1
           grown == AddBucket(bounded_children[n], key[t], id)
       IN  IF Leaf_full(DOMAIN bounded_children[n])
           THEN /\ pc' = [pc EXCEPT ![t] = "internal_tail"]
                /\ UNCHANGED nodeVars
           ELSE /\ pc' = [pc EXCEPT ![t] = "internal_lookup"]
                /\ IF grown = bounded_children[n]
                   THEN UNCHANGED nodeVars
                   ELSE /\ floor' = Append(floor, floor[n] - 1)
                        /\ bounded_children' =
                               Append([bounded_children EXCEPT ![n] = grown], <<>>)
                        /\ unbounded_child' = Append(unbounded_child, Null)
                        /\ reserved_low_key' = Append(reserved_low_key, Null)
                        /\ reserved_high_key' = Append(reserved_high_key, Null)
    /\ UNCHANGED <<leaves, key, value, caller, node, localVars, result, keyset, inserted,
                   splitReported>>
    /\ UNCHANGED reclaimVars
    /\ UNCHANGED changed

\* unbounded_child.load, compare_and_set(null, Owned::new(Node::new(self.floor - 1)))
\* when it is null, then current_tail_node.insert(..)
InternalTail(t) ==
    /\ pc[t] = "internal_tail"
    /\ LET n == node[t]
           id == Len(floor) + 1
       IN  IF unbounded_child[n] = Null
           THEN /\ floor' = Append(floor, floor[n] - 1)
                /\ bounded_children' = Append(bounded_children, <<>>)
                /\ unbounded_child' = Append([unbounded_child EXCEPT ![n] = id], Null)
                /\ reserved_low_key' = Append(reserved_low_key, Null)
                /\ reserved_high_key' = Append(reserved_high_key, Null)
                /\ node' = [node EXCEPT ![t] = id]
           ELSE /\ node' = [node EXCEPT ![t] = unbounded_child[n]]
                /\ UNCHANGED nodeVars
    /\ caller' = [caller EXCEPT ![t] = node[t]]
    /\ pc' = [pc EXCEPT ![t] = "lookup"]
    /\ UNCHANGED <<leaves, key, value, localVars, result, keyset, inserted, splitReported>>
    /\ UNCHANGED reclaimVars
    /\ UNCHANGED changed

\* Mutant: handle_result reports success whatever the child returned.
HandleResultAllOk(r) == Ok

\* Node::handle_result: Ok, Duplicated and Retry are returned as they are; Full
\* returns Ok(()).
HandleResultOf(r) == IF r.kind = "Full" THEN Ok ELSE r

HandleResult(t) ==
    /\ pc[t] = "handle_result"
    /\ Finish(t, HandleResultOf(result[t]))
    /\ UNCHANGED <<leaves, nodeVars, key, value, localVars, keyset, splitReported>>
    /\ UNCHANGED reclaimVars
    /\ UNCHANGED changed

InternalStep(t) ==
    \/ InternalLookup(t) \/ InternalGrow(t) \/ InternalTail(t) \/ HandleResult(t)

----------------------------------------------------------------------------
(* One thread on one LeafNode (floor 0), empty at first.                   *)

InitThreads ==
    /\ pc = [t \in Threads |-> "idle"]
    /\ key = [t \in Threads |-> NoKey]
    /\ value = [t \in Threads |-> NoKey]
    /\ caller = [t \in Threads |-> Null]
    /\ node = [t \in Threads |-> Null]
    /\ max_key = [t \in Threads |-> NoKey]
    /\ child_node = [t \in Threads |-> Null]
    /\ low_key_leaf = [t \in Threads |-> Null]
    /\ high_key_leaf = [t \in Threads |-> Null]
    /\ distributed = [t \in Threads |-> <<0, 0>>]
    /\ result = [t \in Threads |-> NoResult]
    /\ inserted = {}
    /\ splitReported = {}
    /\ changed = [t \in Threads |-> FALSE]

\* Node::new(fl): one node, no bucket, null unbounded child and staging slots.
InitNode(fl) ==
    /\ leaves = <<>>
    /\ floor = <<fl>>
    /\ bounded_children = <<<<>>>>
    /\ unbounded_child = <<Null>>
    /\ reserved_low_key = <<Null>>
    /\ reserved_high_key = <<Null>>

\* let guard = crossbeam_epoch::pin(): every thread works under a pinned guard; no
\* scanner is held and the node is not dropped.
InitReclaim ==
    /\ guard = [t \in Threads |-> TRUE]
    /\ protectors = {}
    /\ scanner = [t \in Threads |-> LeafNodeScanner_new]
    /\ found = [t \in Threads |-> {}]
    /\ dropped = FALSE
    /\ released = <<>>

Init ==
    /\ InitNode(0)
    /\ InitThreads
    /\ InitReclaim
    /\ keyset = [t \in Threads |-> IF t = "t1" THEN Keys ELSE {}]

Next == \E t \in Threads : Call(t) \/ LeafStep(t)

Spec == Init /\ [][Next]_vars

----------------------------------------------------------------------------
(* Two threads on one shared LeafNode, each inserting the keys of its own  *)
(* set: the even keys and the odd keys.                                    *)

InitConc ==
    /\ InitNode(0)
    /\ InitThreads
    /\ InitReclaim
    /\ keyset = [t \in Threads |-> {k \in Keys : (k % 2 = 0) <=> (t = "t1")}]

\* The thread inserts a key of its set that no insert has stored yet: a first
\* attempt, or the insert re-issued from the top after Retry.
CallPending(t) ==
    /\ pc[t] \in {"idle", "returned"}
    /\ floor[1] = 0
    /\ \E k \in keyset[t] \ KeysOf(inserted), v \in Values :
         /\ key' = [key EXCEPT ![t] = k]
         /\ value' = [value EXCEPT ![t] = v]
    /\ node' = [node EXCEPT ![t] = 1]
    /\ pc' = [pc EXCEPT ![t] = "lookup"]
    /\ result' = [result EXCEPT ![t] = NoResult]
    /\ UNCHANGED <<leaves, nodeVars, caller, localVars, keyset, inserted, splitReported>>
    /\ guard[t]
    /\ ~dropped
    /\ UNCHANGED reclaimVars
    /\ changed' = [changed EXCEPT ![t] = FALSE]

NextConc == \E t \in Threads : CallPending(t) \/ LeafStep(t)

\* Every thread that can take a step eventually takes one.
SpecConc == InitConc /\ [][NextConc]_vars
                /\ \A t \in Threads : WF_vars(CallPending(t) \/ LeafStep(t))

----------------------------------------------------------------------------
(* Two threads on one shared LeafNode, both inserting any key: they race   *)
(* for the same bucket, the same leaf and the same entry.                  *)

\* The keys both threads insert: one more than a LeafNode has buckets.
RaceKeys == 0..ARRAY_SIZE

InitRace ==
    /\ InitNode(0)
    /\ InitThreads
    /\ InitReclaim
    /\ keyset = [t \in Threads |-> RaceKeys]

SpecRace == InitRace /\ [][NextConc]_vars

----------------------------------------------------------------------------
(* One thread on one InternalNode of floor 1, empty at first.              *)

InitInternal ==
    /\ InitNode(1)
    /\ InitThreads
    /\ InitReclaim
    /\ keyset = [t \in Threads |-> IF t = "t1" THEN InternalKeys ELSE {}]

NextInternal == \E t \in Threads : InternalCall(t) \/ InternalStep(t) \/ LeafStep(t)

SpecInternal == InitInternal /\ [][NextInternal]_vars

----------------------------------------------------------------------------
(* Epoch reclamation.  A leaf handed to guard.defer_destroy is freed once  *)
(* every guard that was pinned at that moment has been released; a leaf    *)
(* dropped through into_owned() is freed at once.  Threads pin a guard     *)
(* before they call insert, search or a scanner and release it when they   *)
(* hold no reference obtained under it.                                    *)

\* The threads that search and scan.
Readers == {"t2"}

AtRest(t) == pc[t] \in {"idle", "returned"}

\* crossbeam_epoch::pin()
Pin(t) ==
    /\ AtRest(t)
    /\ ~guard[t]
    /\ guard' = [guard EXCEPT ![t] = TRUE]
    /\ UNCHANGED <<leaves, nodeVars, pc, key, value, caller, node, localVars, result,
                   keyset, inserted, splitReported, protectors, scanner, found, dropped,
                   released>>
    /\ UNCHANGED changed

\* The guard goes out of scope, and the scanner that borrowed it with it.
Unpin(t) ==
    /\ AtRest(t)
    /\ guard[t]
    /\ guard' = [guard EXCEPT ![t] = FALSE]
    /\ protectors' = {p \in protectors : p[2] # t}
    /\ scanner' = [scanner EXCEPT ![t] = LeafNodeScanner_new]
    /\ found' = [found EXCEPT ![t] = {}]
    /\ UNCHANGED <<leaves, nodeVars, pc, key, value, caller, node, localVars, result,
                   keyset, inserted, splitReported, dropped, released>>
    /\ UNCHANGED changed

\* The collector runs the deferred destruction of a leaf no pinned guard protects.
Collect(id) ==
    /\ leaves[id].st = "retired"
    /\ \A p \in protectors : p[1] # id
    /\ leaves' = Dropped(leaves, id)
    /\ UNCHANGED <<nodeVars, pc, key, value, caller, node, localVars, result, keyset,
                   inserted, splitReported, reclaimVars>>
    /\ UNCHANGED changed

\* The reader calls search(k, guard) on the root LeafNode (the key, a borrowed
\* argument, is gone when search returns).
SearchCall(t) ==
    /\ AtRest(t)
    /\ guard[t]
    /\ floor[1] = 0
    /\ \E k \in Keys : key' = [key EXCEPT ![t] = k]
    /\ node' = [node EXCEPT ![t] = 1]
    /\ pc' = [pc EXCEPT ![t] = "search_lookup"]
    /\ result' = [result EXCEPT ![t] = NoResult]
    /\ scanner' = [scanner EXCEPT ![t] = LeafNodeScanner_new]
    /\ found' = [found EXCEPT ![t] = {}]
    /\ UNCHANGED <<leaves, nodeVars, value, caller, localVars, keyset, inserted,
                   splitReported, guard, protectors, dropped, released>>
    /\ UNCHANGED changed

\* bounded_children.min_ge(&key)
SearchLookup(t) ==
    /\ pc[t] = "search_lookup"
    /\ max_key' = [max_key EXCEPT ![t] =
                       Leaf_min_ge(DOMAIN bounded_children[node[t]], key[t])]
    /\ pc' = [pc EXCEPT ![t] = "search_load"]
    /\ UNCHANGED <<leaves, nodeVars, key, value, caller, node, child_node, low_key_leaf,
                   high_key_leaf, distributed, result, keyset, inserted, splitReported,
                   reclaimVars>>
    /\ UNCHANGED changed

\* child.load(Acquire, guard), or unbounded_child.load(Relaxed, guard) and None
\* when it is null
SearchLoad(t) ==
    /\ pc[t] = "search_load"
    /\ LET leaf == FullLeaf(t)
       IN  IF leaf = Null
           THEN /\ pc' = [pc EXCEPT ![t] = "returned"]
                /\ key' = [key EXCEPT ![t] = NoKey]
                /\ node' = [node EXCEPT ![t] = Null]
                /\ NoLocals(t)
           ELSE /\ pc' = [pc EXCEPT ![t] = "search_deref"]
                /\ child_node' = [child_node EXCEPT ![t] = leaf]
                /\ UNCHANGED <<key, node, max_key, low_key_leaf, high_key_leaf,
                               distributed>>
    /\ UNCHANGED <<leaves, nodeVars, value, caller, result, keyset, inserted,
                   splitReported, reclaimVars>>
    /\ UNCHANGED changed

\* LeafNodeScanner::from(key, self, leaf.deref(), guard): Some(scanner) when get()
\* yields the entry of the key, else None
SearchDeref(t) ==
    /\ pc[t] = "search_deref"
    /\ LET entry == LeafScanner_from(Entries(child_node[t]), key[t])
       IN  /\ found' = [found EXCEPT ![t] = entry]
           /\ scanner' = [scanner EXCEPT ![t] =
                  IF entry = {} THEN LeafNodeScanner_new
                  ELSE LeafNodeScanner_from(key[t], child_node[t])]
           /\ pc' = [pc EXCEPT ![t] = IF entry = {} THEN "returned" ELSE "scanning"]
           /\ node' = [node EXCEPT ![t] = IF entry = {} THEN Null ELSE @]
    /\ key' = [key EXCEPT ![t] = NoKey]
    /\ NoLocals(t)
    /\ UNCHANGED <<leaves, nodeVars, value, caller, result, keyset, inserted,
                   splitReported, guard, protectors, dropped, released>>
    /\ UNCHANGED changed

\* LeafNodeScanner::new(&node, &guard)
ScanCall(t) ==
    /\ AtRest(t)
    /\ guard[t]
    /\ floor[1] = 0
    /\ node' = [node EXCEPT ![t] = 1]
    /\ pc' = [pc EXCEPT ![t] = "scanning"]
    /\ result' = [result EXCEPT ![t] = NoResult]
    /\ scanner' = [scanner EXCEPT ![t] = LeafNodeScanner_new]
    /\ found' = [found EXCEPT ![t] = {}]
    /\ UNCHANGED <<leaves, nodeVars, key, value, caller, localVars, keyset, inserted,
                   splitReported, guard, protectors, dropped, released>>
    /\ UNCHANGED changed

\* scanner.next(); the scanner is let go when it returns None
ScanNext(t) ==
    /\ pc[t] = "scanning"
    /\ LET r == LeafNodeScanner_next(node[t], scanner[t])
       IN  /\ found' = [found EXCEPT ![t] = Yielded(r.item)]
           /\ scanner' = [scanner EXCEPT ![t] =
                  IF r.item = <<>> THEN LeafNodeScanner_new ELSE r.scanner]
           /\ pc' = [pc EXCEPT ![t] = IF r.item = <<>> THEN "returned" ELSE "scanning"]
           /\ node' = [node EXCEPT ![t] = IF r.item = <<>> THEN Null ELSE @]
    /\ UNCHANGED <<leaves, nodeVars, key, value, caller, localVars, result, keyset,
                   inserted, splitReported, guard, protectors, dropped, released>>
    /\ UNCHANGED changed

ReadStep(t) ==
    \/ SearchCall(t) \/ SearchLookup(t) \/ SearchLoad(t) \/ SearchDeref(t)
    \/ ScanCall(t) \/ ScanNext(t)

\* One thread inserts, the other one inserts, searches and scans, each under guards
\* it pins and releases between operations.
\* The keys inserted next to the reader: enough to overflow a leaf from two threads
\* at once.
EpochKeys == 0..(ARRAY_SIZE + 1)

InitEpoch ==
    /\ InitNode(0)
    /\ InitThreads
    /\ InitReclaim
    /\ keyset = [t \in Threads |-> {k \in EpochKeys : (k % 2 = 0) <=> (t = "t1")}]

NextEpoch ==
    \/ \E t \in Threads : CallPending(t) \/ LeafStep(t) \/ Pin(t) \/ Unpin(t)
    \/ \E t \in Readers : ReadStep(t)
    \/ \E id \in LeafIds : Collect(id)

SpecEpoch == InitEpoch /\ [][NextEpoch]_vars

----------------------------------------------------------------------------
(* A scanner that is kept after next() has returned None, next to a thread *)
(* that inserts.                                                           *)

\* scanner.next() on a scanner the reader keeps: it stays in hand when next()
\* returns None ("exhausted"), and next() may be called on it again.
HoldNext(t) ==
    /\ pc[t] \in {"scanning", "exhausted"}
    /\ LET r == LeafNodeScanner_next(node[t], scanner[t])
       IN  /\ found' = [found EXCEPT ![t] = Yielded(r.item)]
           /\ scanner' = [scanner EXCEPT ![t] = r.scanner]
           /\ pc' = [pc EXCEPT ![t] = IF r.item = <<>> THEN "exhausted" ELSE @]
    /\ UNCHANGED <<leaves, nodeVars, key, value, caller, node, localVars, result, keyset,
                   inserted, splitReported, guard, protectors, dropped, released>>
    /\ UNCHANGED changed

\* The reader lets the exhausted scanner go.
ScanDrop(t) ==
    /\ pc[t] = "exhausted"
    /\ pc' = [pc EXCEPT ![t] = "returned"]
    /\ node' = [node EXCEPT ![t] = Null]
    /\ scanner' = [scanner EXCEPT ![t] = LeafNodeScanner_new]
    /\ found' = [found EXCEPT ![t] = {}]
    /\ UNCHANGED <<leaves, nodeVars, key, value, caller, localVars, result, keyset,
                   inserted, splitReported, guard, protectors, dropped, released>>
    /\ UNCHANGED changed

\* One thread inserts into the LeafNode, the other one scans it.
NextScan ==
    \/ \E t \in Threads : CallPending(t) \/ LeafStep(t)
    \/ \E t \in Readers : ScanCall(t) \/ HoldNext(t) \/ ScanDrop(t)

SpecScan == Init /\ [][NextScan]_vars

----------------------------------------------------------------------------
(* Drop for Node, LeafNode branch: the owner drops the root node when no   *)
(* operation runs on it.                                                   *)

\* The leaves Drop hands to defer_destroy: the child of every bucket and the
\* unbounded child.
DropDeferred(n) ==
    {bounded_children[n][b] : b \in DOMAIN bounded_children[n]}
        \cup ({unbounded_child[n]} \ {Null})

\* The leaves Drop drops through into_owned(): what the staging slots hold.
DropOwned(n) == {reserved_low_key[n], reserved_high_key[n]} \ {Null}

One(cond) == IF cond THEN 1 ELSE 0

\* How many times Drop releases leaf id: once for each bucket that points to it,
\* once as the unbounded child, once for each staging slot that holds it.
DropCount(n, id) ==
    Cardinality({b \in DOMAIN bounded_children[n] : bounded_children[n][b] = id})
        + One(unbounded_child[n] = id)
        + One(reserved_low_key[n] = id)
        + One(reserved_high_key[n] = id)

Drop ==
    /\ ~dropped
    /\ floor[1] = 0
    /\ \A t \in Threads : AtRest(t)
    /\ dropped' = TRUE
    /\ released' = [id \in LeafIds |-> DropCount(1, id)]
    /\ leaves' = [id \in LeafIds |->
                     IF id \in DropOwned(1) THEN [entries |-> {}, st |-> "free"]
                     ELSE IF id \in DropDeferred(1)
                          THEN [leaves[id] EXCEPT !.st = "retired"]
                          ELSE leaves[id]]
    /\ bounded_children' = [bounded_children EXCEPT
                               ![1] = [b \in DOMAIN @ |-> Null]]
    /\ reserved_low_key' = [reserved_low_key EXCEPT ![1] = Null]
    /\ reserved_high_key' = [reserved_high_key EXCEPT ![1] = Null]
    /\ UNCHANGED <<floor, unbounded_child, pc, key, value, caller, node, localVars,
                   result, keyset, inserted, splitReported, guard, protectors, scanner,
                   found>>
    /\ UNCHANGED changed

\* One thread inserts into a LeafNode, which is dropped in the end.
NextDrop == (\E t \in Threads : Call(t) \/ LeafStep(t)) \/ Drop

SpecDrop == Init /\ [][NextDrop]_vars

----------------------------------------------------------------------------
(* Node::split_node, LeafNode branch, applied by an InternalNode of floor  *)
(* 1 to the child whose insert returned Full.  The code has no caller of   *)
(* split_node; here the node that holds the child runs it on the Full it   *)
(* received, with the bound of that Full as full_node_max_key.             *)

\* let reserved_low_key_node = reserved_low_key.load(Acquire, guard)
ReservedLowKeyNode(n) == reserved_low_key[n]

\* let reserved_high_key_node = reserved_low_key.load(Acquire, guard)
ReservedHighKeyNode(n) == reserved_low_key[n]

\* if !staged.is_null() { bounded_children.insert(staged.max_key().unwrap(), staged) }
StagedInsert(buckets, staged) ==
    IF staged = Null THEN buckets
    ELSE AddBucket(buckets, Leaf_max_key(KeysOf(Entries(staged))), staged)

\* The entry of full_node_max_key is replaced by the two staged pointers; the
\* counter goes up for each non-null one, stored or refused.
Carry(acc, lo, hi) ==
    [buckets |-> StagedInsert(StagedInsert(acc.buckets, lo), hi),
     count |-> acc.count + One(lo # Null) + One(hi # Null)]

\* bounded_children.insert(entry.0.clone(), entry.1.clone(), false)
Copy(acc, n, k) ==
    [buckets |-> AddBucket(acc.buckets, k, bounded_children[n][k]),
     count |-> acc.count + 1]

\* The first loop over the scanner of the full node: it fills the low node and
\* breaks once more than ARRAY_SIZE / 2 pointers were counted; rest is what the
\* scanner has not yielded yet.
RECURSIVE RedistributeLow(_, _, _, _, _, _)
RedistributeLow(n, ks, fk, lo, hi, acc) ==
    IF ks = {} THEN [buckets |-> acc.buckets, count |-> acc.count, rest |-> {}]
    ELSE LET k == Min(ks)
             next == IF fk # NoKey /\ fk = k THEN Carry(acc, lo, hi) ELSE Copy(acc, n, k)
         IN  IF next.count > ARRAY_SIZE \div 2
             THEN [buckets |-> next.buckets, count |-> next.count, rest |-> ks \ {k}]
             ELSE RedistributeLow(n, ks \ {k}, fk, lo, hi, next)

\* The second loop: the high node takes everything the scanner still yields.
RECURSIVE RedistributeHigh(_, _, _, _, _, _)
RedistributeHigh(n, ks, fk, lo, hi, acc) ==
    IF ks = {} THEN acc
    ELSE LET k == Min(ks)
             next == IF fk # NoKey /\ fk = k THEN Carry(acc, lo, hi) ELSE Copy(acc, n, k)
         IN  RedistributeHigh(n, ks \ {k}, fk, lo, hi, next)

\* if full_node_max_key.is_none(): the staged low pointer becomes a bucket of the
\* high node, the staged high pointer its unbounded child.
RedistributeTail(acc, fk, lo, hi) ==
    IF fk # NoKey
    THEN [buckets |-> acc.buckets, count |-> acc.count, tail |-> Null]
    ELSE [buckets |-> StagedInsert(acc.buckets, lo),
          count |-> acc.count + One(lo # Null) + One(hi # Null),
          tail |-> hi]

\* full_node.swap(new, Release, &guard): the pointer of the parent that led to the
\* full node now leads to the new one.
Swapped(pointers, full, new) ==
    [b \in DOMAIN pointers |-> IF pointers[b] = full THEN new ELSE pointers[b]]

\* What split_node(entry, leaf_array, full_node, fk, low_key, high_key) leaves behind
\* in the parent p of the full node c, and in the two new nodes.
SplitNodeOutcome(p, c, fk, k, v) ==
    LET lo == ReservedLowKeyNode(c)
        hi == ReservedHighKeyNode(c)
        nl == Len(floor) + 1
        nh == Len(floor) + 2
        low == RedistributeLow(c, DOMAIN bounded_children[c], fk, lo, hi,
                               [buckets |-> <<>>, count |-> 0])
        high == RedistributeTail(
                    RedistributeHigh(c, low.rest, fk, lo, hi,
                                     [buckets |-> <<>>, count |-> 0]),
                    fk, lo, hi)
        grown == AddBucket(bounded_children[p], fk, nl)
        made == [made |-> TRUE, low |-> low.buckets, high |-> high.buckets,
                 tail |-> high.tail]
    IN  IF reserved_low_key[p] # Null \/ reserved_high_key[p] # Null
        THEN [made |-> FALSE, result |-> Retry(k, v)]
        ELSE IF fk = NoKey
        THEN made @@ [result |-> Ok, buckets |-> bounded_children[p],
                      unbounded |-> unbounded_child[p], slots |-> <<nl, nh>>]
        ELSE IF high.count = 0
        THEN made @@ [result |-> Ok, buckets |-> Swapped(bounded_children[p], c, nl),
                      unbounded |-> IF unbounded_child[p] = c THEN nl
                                    ELSE unbounded_child[p],
                      slots |-> <<Null, Null>>]
        ELSE IF grown = bounded_children[p]
        THEN made @@ [result |-> Full(k, v, fk), buckets |-> bounded_children[p],
                      unbounded |-> unbounded_child[p], slots |-> <<nl, nh>>]
        ELSE made @@ [result |-> Ok, buckets |-> Swapped(grown, c, nh),
                      unbounded |-> IF unbounded_child[p] = c THEN nh
                                    ELSE unbounded_child[p],
                      slots |-> <<Null, nh>>]

\* split_node on the child that returned Full; the thread keeps low_key_node and
\* high_key_node and stops.
SplitNode(t) ==
    /\ pc[t] = "handle_result"
    /\ result[t].kind = "Full"
    /\ LET p == caller[t]
           out == SplitNodeOutcome(p, node[t], result[t].bound, key[t], value[t])
       IN  /\ result' = [result EXCEPT ![t] = out.result]
           /\ IF out.made
              THEN /\ floor' = floor \o <<floor[p] - 1, floor[p] - 1>>
                   /\ bounded_children' =
                          [bounded_children EXCEPT ![p] = out.buckets]
                              \o <<out.low, out.high>>
                   /\ unbounded_child' =
                          [unbounded_child EXCEPT ![p] = out.unbounded]
                              \o <<Null, out.tail>>
                   /\ reserved_low_key' =
                          [reserved_low_key EXCEPT ![p] = out.slots[1]] \o <<Null, Null>>
                   /\ reserved_high_key' =
                          [reserved_high_key EXCEPT ![p] = out.slots[2]] \o <<Null, Null>>
                   /\ low_key_leaf' = [low_key_leaf EXCEPT ![t] = Len(floor) + 1]
                   /\ high_key_leaf' = [high_key_leaf EXCEPT ![t] = Len(floor) + 2]
              ELSE UNCHANGED <<nodeVars, low_key_leaf, high_key_leaf>>
    /\ max_key' = [max_key EXCEPT ![t] = result[t].bound]
    /\ pc' = [pc EXCEPT ![t] = "split_node_returned"]
    /\ UNCHANGED <<leaves, key, value, caller, node, child_node, distributed, keyset,
                   inserted, splitReported>>
    /\ UNCHANGED reclaimVars
    /\ UNCHANGED changed

NextSplitNode ==
    \E t \in Threads : InternalCall(t) \/ InternalStep(t) \/ LeafStep(t) \/ SplitNode(t)

SpecSplitNode == InitInternal /\ [][NextSplitNode]_vars

----------------------------------------------------------------------------
(* Claims.                                                                 *)

Quiescent == \A t \in Threads : pc[t] \in {"idle", "returned"}

\* C1: on a LeafNode used by one thread, whenever no insert is running, search(k)
\* yields (k, v) if and only if an earlier insert(k, v) returned Ok.
C1_SearchFindsExactlyInserted ==
    Quiescent => \A k \in Keys : Search(1, k) = {e \in inserted : e[1] = k}

\* An insert that went through a two-leaf split has returned Ok, and every pair
\* inserted so far is found.
C1_Witness ==
    /\ Quiescent
    /\ 1 \in splitReported
    /\ result["t1"] = Ok
    /\ reserved_low_key[1] = Null
    /\ Cardinality(inserted) > ARRAY_SIZE
    /\ \A e \in inserted : Search(1, e[1]) = {e}

\* C2: an insert of a key that is stored already returns Duplicated with exactly
\* the offered pair, no second pair of that key is ever stored, and search still
\* yields the pair inserted first.
C2_DuplicatedKeepsOriginal ==
    \A t \in Threads : pc[t] = "returned" =>
        /\ (result[t] # Ok /\ key[t] \in KeysOf(inserted))
               => result[t] = Duplicated(key[t], value[t])
        /\ \A e1, e2 \in inserted : e1[1] = e2[1] => e1 = e2
        /\ result[t].kind = "Duplicated"
               => Search(1, key[t]) = {e \in inserted : e[1] = key[t]}
                  /\ Search(1, key[t]) # {}

\* Duplicated was returned for a key held by a full leaf, the offered value
\* differing from the stored one.
C2_Witness ==
    /\ pc["t1"] = "returned"
    /\ result["t1"].kind = "Duplicated"
    /\ Leaf_full(KeysOf(Entries(SearchLeaf(1, key["t1"]))))
    /\ <<key["t1"], value["t1"]>> \notin inserted

AllStored == \A t \in Threads : keyset[t] \subseteq KeysOf(inserted)

ScannedOnce(n, k) ==
    Cardinality({i \in 1..Len(FullScan(n)) : FullScan(n)[i][1] = k}) = 1

FullReported == \E t \in Threads : result[t].kind = "Full"

\* C3: threads inserting disjoint key sets into one LeafNode, re-issuing on Retry:
\* eventually every insert has returned Ok and a full scan yields every key exactly
\* once.  (A run in which the node ran out of room and reported Full is let off.)
C3_AllInsertsSucceed ==
    <>(FullReported
       \/ (Quiescent /\ AllStored /\ \A k \in KeysOf(inserted) : ScannedOnce(1, k)))

\* C4: in every state, each entry in a bucket's leaf has a key <= the bucket's key
\* and > every lower bucket's key, each entry in the unbounded leaf has a key above
\* every bucket key, and so search finds every entry held by a linked leaf.  (The
\* bucket keys, the domain of a function, are strictly ascending as they stand.)
C4_BucketsBoundTheirLeaves ==
    LET bs == DOMAIN bounded_children[1]
    IN  /\ \A b \in bs : \A e \in Entries(bounded_children[1][b]) :
              e[1] <= b /\ \A p \in bs : p < b => p < e[1]
        /\ unbounded_child[1] # Null =>
              \A e \in Entries(unbounded_child[1]) : \A b \in bs : b < e[1]
        /\ \A id \in LinkedLeaves(1) : \A e \in Entries(id) : Search(1, e[1]) = {e}

InSplit(t) ==
    pc[t] \in {"claim_low", "claim_high", "distribute", "publish", "swap_full", "unlock"}
PastClaim(t) == pc[t] \in {"distribute", "publish", "swap_full", "unlock"}
Deciding(t) == pc[t] \in {"claim_low", "claim_high", "distribute", "publish"}

BucketsFull(n) == Leaf_full(DOMAIN bounded_children[n])

\* split_leaf runs for a full bounded leaf of a node whose bucket array is full.
Overflowing(t) == Deciding(t) /\ max_key[t] # NoKey /\ BucketsFull(node[t])

SearchUnchanged == \A k \in Keys : Search(1, k)' = Search(1, k)

\* C5 as claimed: with C buckets, the insert of a new key routed to a full bounded
\* leaf returns Full with the offered pair and the leaf's upper bound, the bucket
\* array and every search result being as before.  (Stated for a node on which no
\* earlier split_leaf has returned Full or published, so that no staging slot is
\* held by a split that is over.)
C5_FullOnOverflow ==
    [][\A t \in Threads :
          (Overflowing(t) /\ node[t] \notin splitReported /\ ~Deciding(t)') =>
          /\ pc'[t] = "returned"
          /\ result'[t] = Full(key[t], value[t], max_key[t])
          /\ bounded_children' = bounded_children
          /\ SearchUnchanged]_vars

\* C5 as amended: it never returns Ok: it returns Full (offered pair, upper bound)
\* when split_leaf has claimed both staging slots, and Retry with the offered pair
\* when a slot was taken; the bucket array and every search result are as before.
C5_FullOrRetryOnOverflow ==
    [][\A t \in Threads : (Overflowing(t) /\ ~Deciding(t)') =>
          /\ pc'[t] = "returned"
          /\ \/ pc[t] = "publish" /\ result'[t] = Full(key[t], value[t], max_key[t])
             \/ pc[t] \in {"claim_low", "claim_high"}
                  /\ result'[t] = Retry(key[t], value[t])
          /\ bounded_children' = bounded_children
          /\ SearchUnchanged]_vars

\* Full with an upper bound has been returned by a node of C buckets.
C5_Witness ==
    /\ pc["t1"] = "returned"
    /\ result["t1"].kind = "Full"
    /\ result["t1"].bound # NoKey
    /\ BucketsFull(1)
    /\ bounded_children[1][result["t1"].bound] \notin
           {reserved_low_key[1], reserved_high_key[1]}

\* C6: once a split_leaf on the node has returned Full or published a two-leaf
\* split, a split_leaf of a later overflow on that node gets no further than the
\* claim of the high slot and returns Retry with its own pair.
C6_RetryAfterSplit ==
    [][\A t \in Threads :
          (node[t] \in splitReported /\ pc[t] \in {"claim_low", "claim_high"}
               /\ pc'[t] # pc[t]) =>
             \/ pc[t] = "claim_low" /\ pc'[t] = "claim_high"
             \/ pc'[t] = "returned" /\ result'[t] = Retry(key[t], value[t])]_vars

\* Retry was returned to the only thread, after a published two-leaf split.
C6_Witness ==
    /\ pc["t1"] = "returned"
    /\ result["t1"] = Retry(key["t1"], value["t1"])
    /\ 1 \in splitReported
    /\ reserved_low_key[1] = Null
    /\ pc["t2"] = "idle"

\* C7: with a single thread, insert never reports Retry.
C7_NoRetrySingleThread == \A t \in Threads : result[t].kind # "Retry"

\* C8: while no split_leaf is executing on a node, both its staging slots are null.
C8_SlotsNullOutsideSplit ==
    (\A t \in Threads : ~InSplit(t)) =>
        \A n \in 1..Len(floor) :
            reserved_low_key[n] = Null /\ reserved_high_key[n] = Null

StagedUnchanged(u) ==
    /\ reserved_low_key' = reserved_low_key
    /\ reserved_high_key' = reserved_high_key
    /\ Entries(low_key_leaf[u])' = Entries(low_key_leaf[u])
    /\ Entries(high_key_leaf[u])' = Entries(high_key_leaf[u])
    /\ leaves'[low_key_leaf[u]].st = "live"
    /\ leaves'[high_key_leaf[u]].st = "live"

\* C9: at most one thread is past the claim step of split_leaf; the split_leaf of
\* any other thread returns Retry meanwhile, leaving the bucket array (the full
\* leaf's pointer with it), the staging slots and the staged leaves as they are.
C9_SplitMutualExclusion ==
    /\ [](Cardinality({t \in Threads : PastClaim(t)}) <= 1)
    /\ [][\A t, u \in Threads :
            (t # u /\ PastClaim(u) /\ node[t] = node[u]
                 /\ pc[t] \in {"claim_low", "claim_high"} /\ pc'[t] # pc[t]) =>
               /\ pc'[t] = "returned"
               /\ result'[t] = Retry(key[t], value[t])
               /\ bounded_children' = bounded_children
               /\ StagedUnchanged(u)]_vars

\* A thread got Retry while the other one was past the claim step.
C9_Witness ==
    /\ PastClaim("t1")
    /\ pc["t2"] = "returned"
    /\ result["t2"].kind = "Retry"
    /\ 1 \notin splitReported

\* C10: an insert on an InternalNode returns Ok only if search then finds the
\* entry (a Full of the child is never turned into a success that drops it).
C10_OkMeansStored ==
    \A t \in Threads : (pc[t] = "returned" /\ result[t] = Ok) =>
        InternalSearch(1, key[t]) = {<<key[t], value[t]>>}

Ascending(seq) == \A i, j \in 1..Len(seq) : i < j => seq[i][1] < seq[j][1]

\* C11: on a LeafNode used by one thread, whenever no insert is running, a full
\* forward scan (LeafNodeScanner::new, next() until None) yields keys in strictly
\* ascending order, after splits and inserts into the unbounded leaf as well.
C11_ScanAscending == Quiescent => Ascending(Scan(1))

\* A scan that runs through the two leaves of a published split and then through
\* the unbounded leaf.
C11_Witness ==
    /\ Quiescent
    /\ 1 \in splitReported
    /\ result["t1"] = Ok
    /\ unbounded_child[1] # Null
    /\ Entries(unbounded_child[1]) # {}
    /\ Len(Scan(1)) > ARRAY_SIZE + 1
    /\ Ascending(Scan(1))

\* C12: a full forward scan yields every stored entry exactly once with the value
\* it was inserted with: as many entries as inserts returned Ok, each of them
\* found by search(key) with the same value.
C12_ScanYieldsInserted ==
    Quiescent =>
        /\ Len(Scan(1)) = Cardinality(inserted)
        /\ Yielded(Scan(1)) = inserted
        /\ \A e \in Yielded(Scan(1)) : Search(1, e[1]) = {e}

\* A scan of several leaves, the unbounded one among them, that yields both values.
C12_Witness ==
    /\ Quiescent
    /\ Len(Scan(1)) > ARRAY_SIZE + 1
    /\ unbounded_child[1] # Null
    /\ Entries(unbounded_child[1]) \subseteq Yielded(Scan(1))
    /\ {e[2] : e \in Yielded(Scan(1))} = Values

\* C15: when split_leaf has published a split of a bounded leaf and returns Ok, with
\* one new leaf or with two, both staging slots of the node are null.
C15_SlotsClearedOnSuccess ==
    [][\A t \in Threads :
          (pc[t] \in {"publish", "unlock"} /\ max_key[t] # NoKey
               /\ pc'[t] = "returned" /\ result'[t] = Ok) =>
             /\ reserved_low_key'[node[t]] = Null
             /\ reserved_high_key'[node[t]] = Null]_vars

\* C16: a split_leaf that finds the low slot taken returns Retry and changes
\* nothing; one that claims the low slot and finds the high slot taken swaps the
\* low slot back to null, frees the leaf it had just staged there and nothing
\* else, and returns Retry; the Retry carries the offered pair and every search
\* result is as before.
C16_FailedClaimReleases ==
    [][\A t \in Threads :
          /\ (pc[t] = "claim_low" /\ reserved_low_key[node[t]] # Null /\ pc'[t] # pc[t]) =>
                /\ pc'[t] = "returned"
                /\ result'[t] = Retry(key[t], value[t])
                /\ leaves' = leaves
                /\ nodeVars' = nodeVars
          /\ (pc[t] = "claim_high" /\ reserved_high_key[node[t]] # Null /\ pc'[t] # pc[t]) =>
                /\ pc'[t] = "returned"
                /\ result'[t] = Retry(key[t], value[t])
                /\ reserved_low_key[node[t]] = low_key_leaf[t]
                /\ reserved_low_key' = [reserved_low_key EXCEPT ![node[t]] = Null]
                /\ leaves' = [leaves EXCEPT ![low_key_leaf[t]] = [entries |-> {}, st |-> "free"]]
                /\ <<floor, bounded_children, unbounded_child, reserved_high_key>>'
                       = <<floor, bounded_children, unbounded_child, reserved_high_key>>
                /\ SearchUnchanged]_vars

\* Retry was returned by a split_leaf that had claimed the low slot: the slot is
\* null again and the leaf staged in it is freed.
C16_Witness ==
    /\ pc["t2"] = "returned"
    /\ result["t2"] = Retry(key["t2"], value["t2"])
    /\ reserved_low_key[1] = Null
    /\ reserved_high_key[1] # Null
    /\ \E id \in LeafIds : leaves[id].st = "free"
    /\ inserted # {}

\* C17: a split_leaf that has claimed both slots for the full unbounded leaf returns
\* Full with the offered pair and no upper bound; the unbounded pointer and the
\* bucket array are as before and search does not find the offered key.
C17_FullOnUnboundedOverflow ==
    [][\A t \in Threads :
          (pc[t] = "publish" /\ max_key[t] = NoKey /\ pc'[t] # pc[t]) =>
             /\ pc'[t] = "returned"
             /\ result'[t] = Full(key[t], value[t], NoKey)
             /\ unbounded_child' = unbounded_child
             /\ bounded_children' = bounded_children
             /\ Search(1, key[t])' = {}]_vars

\* Full without an upper bound has been returned for a key the full unbounded leaf
\* does not hold.
C17_Witness ==
    /\ pc["t1"] = "returned"
    /\ result["t1"] = Full(key["t1"], value["t1"], NoKey)
    /\ unbounded_child[1] # Null
    /\ Leaf_full(KeysOf(Entries(unbounded_child[1])))
    /\ Search(1, key["t1"]) = {}

\* C18: once split_leaf has distributed the full leaf and placed the offered entry,
\* the low and the high leaf hold together exactly the entries of the full leaf
\* and the offered entry (one more entry than the full leaf), and every key of
\* the low leaf is smaller than every key of the high leaf.  (Stated where the
\* two steps have run and neither leaf is published yet: a registered low leaf
\* takes the inserts of other threads.)
C18_SplitConservesEntries ==
    \A t \in Threads : pc[t] = "publish" =>
        LET low == Entries(low_key_leaf[t])
            high == Entries(high_key_leaf[t])
            full == Entries(FullLeaf(t))
        IN  /\ low \cup high = full \cup {<<key[t], value[t]>>}
            /\ Cardinality(low) + Cardinality(high) = Cardinality(full) + 1
            /\ \A a \in low, b \in high : a[1] < b[1]

\* The offered entry was placed in the low leaf, below a high leaf that is not empty.
C18_Witness ==
    /\ pc["t1"] = "publish"
    /\ <<key["t1"], value["t1"]>> \in Entries(low_key_leaf["t1"])
    /\ Entries(high_key_leaf["t1"]) # {}
    /\ Leaf_full(KeysOf(Entries(FullLeaf("t1"))))

\* The leaves a thread has loaded a pointer to and will still dereference: the
\* child it is about to insert into or to look into, the leaf its scanner is in,
\* the leaves it staged.
Held(t) ==
    (IF pc[t] \in {"leaf_insert", "tail_insert", "search_deref"}
     THEN {child_node[t]} ELSE {})
    \cup (IF scanner[t].leaf_scanner.on THEN {scanner[t].leaf_scanner.leaf} ELSE {})
    \cup (IF pc[t] \in {"distribute", "publish", "swap_full"}
          THEN {low_key_leaf[t], high_key_leaf[t]} ELSE {})

\* C13: under any interleaving of search, scan and insert under pinned guards, no
\* thread holds a reference to a leaf that has been freed: a leaf a split has
\* unlinked stays allocated while a guard pinned before the unlink is held.
C13_NoUseAfterFree ==
    /\ \A t \in Threads : \A id \in Held(t) : guard[t] /\ leaves[id].st # "free"
    /\ \A p \in protectors : leaves[p[1]].st = "retired" /\ guard[p[2]]

\* The reader is in a leaf that a split of the other thread has unlinked and
\* handed to deferred destruction.
C13_Witness ==
    /\ \E id \in Held("t2") : leaves[id].st = "retired"
    /\ pc["t2"] \in {"search_deref", "scanning"}
    /\ pc["t1"] = "returned"
    /\ result["t1"] = Ok

\* C14: when the node is dropped, after any sequence of inserts, every leaf it
\* still owns (bucket child, unbounded child, staged leaf) is released exactly
\* once: none twice, none left allocated.
C14_DropReleasesOnce ==
    dropped => \A id \in LeafIds :
                  /\ released[id] <= 1
                  /\ leaves[id].st # "live"

\* Whenever split_leaf has distributed a full leaf, the high leaf got an entry: the
\* one-leaf publication of split_leaf is not reached.
HighLeafNeverEmpty ==
    \A t \in Threads : pc[t] = "publish" => distributed[t][2] > 0

C21_ChildOutcomePropagates ==
    [][\A t \in Threads :
          (pc[t] = "handle_result" /\ result[t].kind \in {"Ok", "Duplicated", "Retry"}
               /\ pc'[t] # pc[t]) =>
             /\ pc'[t] = "returned"
             /\ result'[t] = result[t]
             /\ result[t].kind # "Ok" =>
                    <<result'[t].key, result'[t].value>> = <<key[t], value[t]>>
             /\ nodeVars' = nodeVars
             /\ leaves' = leaves]_vars

\* The InternalNode has returned the Retry of a child LeafNode, with the offered pair.
C21_Witness ==
    /\ floor[1] > 0
    /\ pc["t1"] = "returned"
    /\ result["t1"] = Retry(key["t1"], value["t1"])
    /\ inserted # {}

\* The entries of a sequence whose key is above k, in the order of the sequence.
After(seq, k) == SelectSeq(seq, LAMBDA e : e[1] > k)

\* C22: the scanner search(key) returns, advanced with next() until None, yields
\* every stored entry with a key above the searched key, in ascending order: the
\* rest of its leaf, then the following buckets, then the unbounded child.
C22_SearchScannerYieldsRest ==
    Quiescent => \A e \in inserted :
        Search(1, e[1]) # {} =>
            Drain(1, LeafNodeScanner_from(e[1], SearchLeaf(1, e[1]))) = After(Scan(1), e[1])

\* C23: once next() has returned None on a LeafNodeScanner, every later next() on
\* that scanner returns None: a scanner that is exhausted has yielded nothing at
\* its last call, whatever was inserted since (the node may have been empty at
\* the first call).
C23_ScannerStaysExhausted ==
    \A t \in Readers : pc[t] = "exhausted" => found[t] = {}

\* C25: the unbounded_child pointer of a node changes only from null to a child,
\* hence once, and only when bounded_children is full; of the inserts that race
\* to materialize it one compare_and_set stores its leaf, the others change
\* nothing, and each of them inserts into the leaf the pointer holds.
C25_UnboundedSetOnce ==
    /\ [][\A n \in 1..Len(floor) :
            unbounded_child'[n] # unbounded_child[n] =>
                /\ unbounded_child[n] = Null
                /\ unbounded_child'[n] # Null
                /\ BucketsFull(n)]_vars
    /\ [][\A t \in Threads :
            (pc[t] = "tail_cas" /\ pc'[t] # pc[t] /\ unbounded_child[node[t]] # Null) =>
                /\ unbounded_child' = unbounded_child
                /\ leaves' = leaves]_vars
    /\ [](\A t \in Threads : pc[t] = "tail_insert" =>
            /\ child_node[t] # Null
            /\ child_node[t] = unbounded_child[node[t]]
            /\ leaves[child_node[t]].st = "live")

\* Both threads found the pointer null; one compare_and_set has stored its leaf, the
\* other one has failed, and both are about to insert into that leaf.
C25_Witness ==
    /\ pc["t1"] = "tail_insert"
    /\ pc["t2"] = "tail_insert"
    /\ child_node["t1"] = child_node["t2"]
    /\ child_node["t1"] = unbounded_child[1]
    /\ Entries(unbounded_child[1]) = {}

\* C27: an insert on a LeafNode that returns Duplicated, Full or Retry has taken
\* no step that changed the entries search finds or the sequence a full scan
\* yields (the buckets and the unbounded leaf it may have added being empty).
C27_FailedInsertKeepsEntries ==
    \A t \in Threads :
        (pc[t] = "returned" /\ result[t].kind \in {"Duplicated", "Full", "Retry"})
            => ~changed[t]

Running(t) == pc[t] \notin {"idle", "returned", "scanning", "exhausted"}

\* A bound on the steps the call of the thread on a LeafNode has left: where the
\* loop of insert stands, what is left is read off the bucket array (a bucket for
\* the key, else a full array, else one more pass).
Rank(t) ==
    LET ks == DOMAIN bounded_children[node[t]]
        passes == IF Leaf_min_ge(ks, key[t]) # NoKey THEN 0
                  ELSE IF Leaf_full(ks) THEN 1
                  ELSE 2
    IN  CASE pc[t] = "lookup" -> IF passes = 0 THEN 9 ELSE IF passes = 1 THEN 11 ELSE 14
          [] pc[t] = "grow" -> IF Leaf_full(ks) THEN 10 ELSE 13
          [] pc[t] = "grow_insert" -> 12
          [] pc[t] = "tail_load" -> 9
          [] pc[t] \in {"load", "tail_cas"} -> 8
          [] pc[t] \in {"leaf_insert", "tail_insert"} -> 7
          [] pc[t] = "claim_low" -> 6
          [] pc[t] = "claim_high" -> 5
          [] pc[t] = "distribute" -> 4
          [] pc[t] = "publish" -> 3
          [] pc[t] = "swap_full" -> 2
          [] pc[t] = "unlock" -> 1
          [] pc[t] = "search_lookup" -> 3
          [] pc[t] = "search_load" -> 2
          [] pc[t] = "search_deref" -> 1
          [] OTHER -> 0

\* C26: every call of insert and of search on a LeafNode returns within a bounded
\* number of its own steps, whatever the other threads do: each step of the call
\* lowers the bound, no step of another thread raises it, and a claim of a
\* staging slot that fails returns Retry in that very step.
C26_BoundedSteps ==
    [][\A t \in Threads :
          /\ (Running(t) /\ pc'[t] # pc[t]) => Rank(t)' < Rank(t)
          /\ (Running(t) /\ pc'[t] = pc[t]) => Rank(t)' <= Rank(t)
          /\ (pc'[t] # pc[t]
                  /\ \/ pc[t] = "claim_low" /\ reserved_low_key[node[t]] # Null
                     \/ pc[t] = "claim_high" /\ reserved_high_key[node[t]] # Null) =>
                 pc'[t] = "returned" /\ result'[t].kind = "Retry"]_vars

\* A thread was refused the staging slots and has returned Retry while the holder
\* is still inside split_leaf.
C26_Witness ==
    /\ pc["t2"] = "returned"
    /\ result["t2"].kind = "Retry"
    /\ guard["t2"]
    /\ pc["t1"] \in {"distribute", "publish"}
    /\ reserved_low_key[1] = low_key_leaf["t1"]


\* How many pointers of the two new nodes lead to leaf id.
Carried(nl, nh, id) ==
    Cardinality({b \in DOMAIN bounded_children[nl] : bounded_children[nl][b] = id})
        + Cardinality({b \in DOMAIN bounded_children[nh] : bounded_children[nh][b] = id})
        + One(unbounded_child[nl] = id)
        + One(unbounded_child[nh] = id)

\* C28: when split_node has redistributed a full LeafNode child whose boundary
\* bucket is mid-split (both staging slots of the child hold a leaf), each of the
\* two staged pointers is linked exactly once from the two new nodes.
C28_StagedPointersCarried ==
    \A t \in Threads :
        (/\ pc[t] = "split_node_returned"
         /\ low_key_leaf[t] # Null
         /\ reserved_low_key[node[t]] # Null
         /\ reserved_high_key[node[t]] # Null)
        => /\ Carried(low_key_leaf[t], high_key_leaf[t], reserved_low_key[node[t]]) = 1
           /\ Carried(low_key_leaf[t], high_key_leaf[t], reserved_high_key[node[t]]) = 1

====
